---- MODULE Spec2Model ----
(***************************************************************************)
(* Verification model of the log-to-PlantUML pipeline of                   *)
(* qdma_log_visualize.py: the pattern matcher, the log entry parser with   *)
(* its format detection, the three diagram builders, the filter engine,    *)
(* the legacy builder and the orchestration in main().                     *)
(*                                                                         *)
(* Text is modelled as TLA+ strings, character by character: the regular   *)
(* expressions of _LogPattern.PATTERNS are matched by operators that scan  *)
(* the characters of a line the way re.search does (leftmost start, greedy *)
(* classes, lazy `.*?`, re.IGNORECASE on the literals).  Inputs are ASCII. *)
(***************************************************************************)
EXTENDS Integers, Sequences, FiniteSets, TLC

VARIABLES
    pc,            \* position of the run: which step comes next
    lines,         \* main: log_lines, the input text lines
    diagram_type,  \* main: the diagram type selected
    entries,       \* the list of _LogEntry a parse produced / a builder reads
    idx,           \* index (from 1) of the entry a builder's loop is at
    out,           \* the builder's list `lines` of diagram lines
    participants,  \* the sequence builder's set `participants`
    call_stack,    \* the sequence builder's list `call_stack`
    prev_func,     \* the component builder's `prev_func`
    puml,          \* the diagram text returned (puml_content)
    url,           \* the image URL (image_url)
    filters,       \* apply_filters: the selection dict
    filtered,      \* apply_filters: the list returned
    left, right,   \* the two entries of a comparison
    eq_result,     \* what left == right gave
    metadata,      \* extract_metadata: the dict of four sets
    enc_input,     \* the bytes handed to the custom encoders
    encoded,       \* what _encode_b64_custom returned
    encoded_v4     \* what version4's _to_custom_b64 returned

vars == <<pc, lines, diagram_type, entries, idx, out, participants, call_stack,
          prev_func, puml, url, filters, filtered, left, right, eq_result,
          metadata, enc_input, encoded, encoded_v4>>

(***************************************************************************)
(* Characters and strings                                                  *)
(***************************************************************************)
Digits == {"0", "1", "2", "3", "4", "5", "6", "7", "8", "9"}

LowerLetters ==
    {"a", "b", "c", "d", "e", "f", "g", "h", "i", "j", "k", "l", "m",
     "n", "o", "p", "q", "r", "s", "t", "u", "v", "w", "x", "y", "z"}

UpperToLower ==
    [c \in {"A", "B", "C", "D", "E", "F", "G", "H", "I", "J", "K", "L", "M",
            "N", "O", "P", "Q", "R", "S", "T", "U", "V", "W", "X", "Y", "Z"} |->
        CASE c = "A" -> "a" [] c = "B" -> "b" [] c = "C" -> "c" [] c = "D" -> "d"
          [] c = "E" -> "e" [] c = "F" -> "f" [] c = "G" -> "g" [] c = "H" -> "h"
          [] c = "I" -> "i" [] c = "J" -> "j" [] c = "K" -> "k" [] c = "L" -> "l"
          [] c = "M" -> "m" [] c = "N" -> "n" [] c = "O" -> "o" [] c = "P" -> "p"
          [] c = "Q" -> "q" [] c = "R" -> "r" [] c = "S" -> "s" [] c = "T" -> "t"
          [] c = "U" -> "u" [] c = "V" -> "v" [] c = "W" -> "w" [] c = "X" -> "x"
          [] c = "Y" -> "y" [] c = "Z" -> "z"]

UpperLetters == DOMAIN UpperToLower

\* \w of the patterns, on ASCII text
WordChars == Digits \cup LowerLetters \cup UpperLetters \cup {"_"}

\* [\d.] of the timestamp
StampChars == Digits \cup {"."}

\* \s of the patterns and the characters str.strip() removes
SpaceChars == {" ", "\t"}

Ch(s, i) == SubSeq(s, i, i)

RECURSIVE Lower(_)
\* str.lower() / the case folding re.IGNORECASE applies to a literal
Lower(s) ==
    IF Len(s) = 0 THEN ""
    ELSE LET c == Ch(s, 1)
         IN  (IF c \in UpperLetters THEN UpperToLower[c] ELSE c)
                 \o Lower(SubSeq(s, 2, Len(s)))

\* the literal lit stands at position i of s (case-sensitive)
At(s, i, lit) ==
    /\ i >= 1
    /\ i + Len(lit) - 1 <= Len(s)
    /\ SubSeq(s, i, i + Len(lit) - 1) = lit

\* the literal lit stands at position i of s under re.IGNORECASE
AtI(s, i, lit) ==
    /\ i >= 1
    /\ i + Len(lit) - 1 <= Len(s)
    /\ Lower(SubSeq(s, i, i + Len(lit) - 1)) = Lower(lit)

\* Python's `sub in s` on strings
Contains(s, sub) == \E i \in 1..(Len(s) - Len(sub) + 1) : At(s, i, sub)

\* end (exclusive) of the longest run of characters of set cs starting at i:
\* what a greedy class+ consumes
Span(s, i, cs) ==
    CHOOSE j \in i..(Len(s) + 1) :
        /\ \A k \in i..(j - 1) : Ch(s, k) \in cs
        /\ j = Len(s) + 1 \/ Ch(s, j) \notin cs

\* str.strip()
Strip(s) ==
    LET keep == {i \in 1..Len(s) : Ch(s, i) \notin SpaceChars}
    IN  IF keep = {} THEN ""
        ELSE SubSeq(s, CHOOSE i \in keep : \A j \in keep : i <= j,
                       CHOOSE i \in keep : \A j \in keep : i >= j)

\* s[:n]
Prefix(s, n) == SubSeq(s, 1, IF Len(s) < n THEN Len(s) ELSE n)

MinOf(S) == CHOOSE x \in S : \A y \in S : x <= y

\* \b at position i (between characters i-1 and i)
WordBoundary(s, i) ==
    LET before == i >= 2 /\ i - 1 <= Len(s) /\ Ch(s, i - 1) \in WordChars
        after  == i >= 1 /\ i <= Len(s) /\ Ch(s, i) \in WordChars
    IN  before # after

(***************************************************************************)
(* _LogPattern: the four patterns, matched as re.search matches them.      *)
(* A match is the tuple of its groups; NoMatch is the empty tuple.         *)
(***************************************************************************)
NoMatch == <<>>

\* `\[[\d.]+\]\s+` at p: the position after it, or 0
StampEnd(s, p) ==
    IF ~At(s, p, "[") THEN 0
    ELSE LET a == Span(s, p + 1, StampChars)
         IN  IF a = p + 1 \/ ~At(s, a, "]") THEN 0
             ELSE LET b == Span(s, a + 1, SpaceChars)
                  IN  IF b = a + 1 THEN 0 ELSE b

\* `(\w+):(\w+):` at a: <<module, caller, position after>>, or <<>>
ModuleCaller(s, a) ==
    LET b == Span(s, a, WordChars)
    IN  IF b = a \/ ~At(s, b, ":") THEN <<>>
        ELSE LET c == Span(s, b + 1, WordChars)
             IN  IF c = b + 1 \/ ~At(s, c, ":") THEN <<>>
                 ELSE <<SubSeq(s, a, b - 1), SubSeq(s, b + 1, c - 1), c + 1>>

\* `\s+(.+)$` at c: the group, or "" when it does not match.  \s+ is greedy
\* and gives one character back when it ran to the end of the line.
SpaceRest(s, c) ==
    LET d == Span(s, c, SpaceChars)
    IN  IF d = c THEN ""
        ELSE IF d <= Len(s) THEN SubSeq(s, d, Len(s))
        ELSE IF d - c >= 2 THEN Ch(s, Len(s))
        ELSE ""

\* the places q >= k where `\[Thread ID: (\d+)\]` fits
ThreadIdPlaces(s, k) ==
    {q \in k..Len(s) : /\ AtI(s, q, "[Thread ID: ")
                       /\ Span(s, q + 12, Digits) > q + 12
                       /\ At(s, Span(s, q + 12, Digits), "]")}

ThreadIdAt(s, q) == SubSeq(s, q + 12, Span(s, q + 12, Digits) - 1)

\* the verb of `(entering|exiting)` at e: its length, or 0
VerbLen(s, e) ==
    IF AtI(s, e, "entering") THEN 8 ELSE IF AtI(s, e, "exiting") THEN 7 ELSE 0

\* PATTERNS['qdma_main'], left to right.  Each operator takes the positions
\* found so far: a after the stamp, mc the module and caller, d after the
\* blanks, e the verb, n its length, g the function name, h its end, qs the
\* places of the thread id (`.*?` is lazy: the first one is taken).
MainThread(s, mc, e, n, g, h, qs) ==
    IF qs = {} THEN NoMatch
    ELSE <<mc[1], mc[2], SubSeq(s, e, e + n - 1), SubSeq(s, g, h - 1),
           ThreadIdAt(s, MinOf(qs))>>

MainName(s, mc, e, n, g, h) ==
    IF h = g \/ ~AtI(s, h, " function at") THEN NoMatch
    ELSE MainThread(s, mc, e, n, g, h, ThreadIdPlaces(s, h + 12))

MainVerb(s, mc, e, n) ==
    IF n = 0 \/ ~AtI(s, e + n, " the ") THEN NoMatch
    ELSE MainName(s, mc, e, n, e + n + 5, Span(s, e + n + 5, WordChars))

MainDashes(s, mc, d) ==
    IF d = mc[3] \/ ~AtI(s, d, "----- QDMA ") THEN NoMatch
    ELSE MainVerb(s, mc, d + 11, VerbLen(s, d + 11))

MainHeader(s, mc) ==
    IF mc = <<>> THEN NoMatch ELSE MainDashes(s, mc, Span(s, mc[3], SpaceChars))

MainStamp(s, a) ==
    IF a = 0 THEN NoMatch ELSE MainHeader(s, ModuleCaller(s, a))

\* PATTERNS['qdma_main'] anchored at p
QdmaMainAt(s, p) == MainStamp(s, StampEnd(s, p))

SimpleRest(mc, m) == IF m = "" THEN NoMatch ELSE <<mc[1], mc[2], m>>

SimpleHeader(s, mc) ==
    IF mc = <<>> THEN NoMatch ELSE SimpleRest(mc, SpaceRest(s, mc[3]))

SimpleStamp(s, a) ==
    IF a = 0 THEN NoMatch ELSE SimpleHeader(s, ModuleCaller(s, a))

\* PATTERNS['qdma_simple'] anchored at p
QdmaSimpleAt(s, p) == SimpleStamp(s, StampEnd(s, p))

CommandRest(m) == IF m = "" THEN NoMatch ELSE <<m>>

CommandStamp(s, a) ==
    IF a = 0 \/ ~AtI(s, a, "Command:") THEN NoMatch
    ELSE CommandRest(SpaceRest(s, a + 8))

\* PATTERNS['command_exec'] anchored at p
CommandExecAt(s, p) == CommandStamp(s, StampEnd(s, p))

\* the qualifier words of PATTERNS['legacy_func'], in the pattern's order
LegacyWords ==
    <<"entering", "command", "info", "exiting", "called", "completed",
      "error", "retry", "skipped">>

\* the alternatives of `(entering|...|skipped)\b` that fit at q
WordsAt(s, q) ==
    {i \in 1..Len(LegacyWords) :
        /\ AtI(s, q, LegacyWords[i])
        /\ WordBoundary(s, q + Len(LegacyWords[i]))}

\* the places q >= h where `\b(entering|...|skipped)\b` fits
QualifierPlaces(s, h) ==
    {q \in h..Len(s) : WordBoundary(s, q) /\ WordsAt(s, q) # {}}

QualifierAt(s, q, w) == SubSeq(s, q, q + Len(w) - 1)

LegacyQualifier(s, g, h, q) ==
    <<SubSeq(s, g, h - 1), QualifierAt(s, q, LegacyWords[MinOf(WordsAt(s, q))])>>

\* g the function name, h its end, qs the places of the qualifier
\* (`.*?` is lazy: the first one is taken)
LegacyName(s, g, h, qs) ==
    IF h = g \/ qs = {} THEN NoMatch ELSE LegacyQualifier(s, g, h, MinOf(qs))

\* PATTERNS['legacy_func'] anchored at p
LegacyFuncAt(s, p) ==
    IF ~(WordBoundary(s, p) /\ AtI(s, p, "Function ")) THEN NoMatch
    ELSE LegacyName(s, p + 9, Span(s, p + 9, WordChars),
                    QualifierPlaces(s, Span(s, p + 9, WordChars)))

PatternAt(s, p, pattern_key) ==
    CASE pattern_key = "qdma_main"    -> QdmaMainAt(s, p)
      [] pattern_key = "qdma_simple"  -> QdmaSimpleAt(s, p)
      [] pattern_key = "command_exec" -> CommandExecAt(s, p)
      [] pattern_key = "legacy_func"  -> LegacyFuncAt(s, p)

LeftmostMatch(line, pattern_key, ps) ==
    IF ps = {} THEN NoMatch ELSE PatternAt(line, MinOf(ps), pattern_key)

\* _LogPattern.match_pattern: re.search takes the leftmost start that matches
match_pattern(line, pattern_key) ==
    LeftmostMatch(line, pattern_key,
                  {p \in 1..Len(line) : PatternAt(line, p, pattern_key) # NoMatch})

(***************************************************************************)
(* _LogEntry.  A field that Python leaves None holds NoneVal, a string no  *)
(* pattern group can produce (groups of the inputs never contain "<").     *)
(***************************************************************************)
NoneVal == "<None>"

\* what an f-string prints for a field
Str(v) == IF v = NoneVal THEN "None" ELSE v

\* Python truthiness of an Optional[str]
Truthy(v) == v # NoneVal /\ v # ""

LogEntry(module, caller_func, function, action, thread_id, message, full_line) ==
    [module |-> module, caller_func |-> caller_func, function |-> function,
     action |-> action, thread_id |-> thread_id, message |-> message,
     full_line |-> full_line]

(***************************************************************************)
(* _LogParser                                                              *)
(***************************************************************************)
\* "Try command pattern"
ParseCommand(line, match) ==
    IF match # NoMatch
    THEN <<LogEntry("system", "command", "command", "command", NoneVal,
                    match[1], Strip(line))>>
    ELSE <<>>

\* "Try simple pattern"
ParseSimple(line, match) ==
    IF match # NoMatch
    THEN <<LogEntry(match[1], match[2], match[2], "info", NoneVal,
                    match[3], Strip(line))>>
    ELSE ParseCommand(line, match_pattern(line, "command_exec"))

\* "Try main QDMA pattern"
ParseMain(line, match) ==
    IF match # NoMatch
    THEN <<LogEntry(match[1], match[2], match[4], match[3], match[5],
                    NoneVal, Strip(line))>>
    ELSE ParseSimple(line, match_pattern(line, "qdma_simple"))

\* _parse_qdma_entry: the entries the line yields, none or one
parse_qdma_entry(line) == ParseMain(line, match_pattern(line, "qdma_main"))

\* _CFG['preview_lines']
preview_lines == 10

\* the first branch of detect_format's loop body
QdmaIndicator(line) ==
    \E indicator \in {"qdma_pf:", "QDMA entering", "QDMA exiting"} :
        Contains(line, indicator)

\* the elif of detect_format's loop body: all(...) over 'Function' and a
\* tuple.  'Function' in line decides first; when it holds, the next test
\* is `tuple in str`, which raises TypeError.  It never yields True.
LegacyIndicator(line) ==
    IF Contains(line, "Function") THEN "TypeError" ELSE "False"

RECURSIVE DetectLoop(_, _, _, _)
DetectLoop(preview, k, qdma_score, legacy_score) ==
    IF k > Len(preview)
    THEN (IF qdma_score > legacy_score THEN "qdma" ELSE "legacy")
    ELSE IF QdmaIndicator(preview[k])
    THEN DetectLoop(preview, k + 1, qdma_score + 1, legacy_score)
    ELSE IF LegacyIndicator(preview[k]) = "TypeError" THEN "TypeError"
    ELSE IF LegacyIndicator(preview[k]) = "True"
    THEN DetectLoop(preview, k + 1, qdma_score, legacy_score + 1)
    ELSE DetectLoop(preview, k + 1, qdma_score, legacy_score)

\* detect_format: "qdma", "legacy", or "TypeError" when the call raises
detect_format(ls) ==
    DetectLoop(SubSeq(ls, 1, IF Len(ls) < preview_lines THEN Len(ls)
                              ELSE preview_lines), 1, 0, 0)

RECURSIVE ParseLoop(_, _, _)
ParseLoop(ls, k, format_type) ==
    IF k > Len(ls) THEN <<>>
    ELSE (IF format_type = "qdma" THEN parse_qdma_entry(ls[k]) ELSE <<>>)
             \o ParseLoop(ls, k + 1, format_type)

\* parse_lines: [raised, entries]; format_type NoneVal is the default None
parse_lines(ls, format_type) ==
    LET ft == IF format_type = NoneVal THEN detect_format(ls) ELSE format_type
    IN  IF ft = "TypeError"
        THEN [raised |-> TRUE, entries |-> <<>>]
        ELSE [raised |-> FALSE, entries |-> ParseLoop(ls, 1, ft)]

\* _LogEntry.__hash__: int(md5(module+function+action)[:8], 16).  The digest
\* is not computed: it is a function of the concatenated text alone, and the
\* model stands for it by that text (distinct texts of the model's inputs
\* have distinct digest prefixes).
entry_hash(e) == Str(e.module) \o Str(e.function) \o Str(e.action)

\* _LogEntry.__eq__ (both operands are _LogEntry objects)
entry_eq(a, b) == entry_hash(a) = entry_hash(b)

(***************************************************************************)
(* _DiagramGenerator: the sequence builder                                 *)
(***************************************************************************)
\* _CFG['max_note_len']
max_note_len == 50

\* call_stack[-1] if call_stack else "User"
StackTopOrUser(stack) == IF Len(stack) > 0 THEN stack[Len(stack)] ELSE "User"

\* handle_entering that does not push a function already on top of the stack
handle_entering_NoRepush(entry, lns, stack) ==
    [lines      |-> Append(lns, StackTopOrUser(stack) \o "->"
                                 \o Str(entry.function) \o ": " \o Str(entry.action)),
     call_stack |-> IF StackTopOrUser(stack) = entry.function THEN stack
                    ELSE Append(stack, entry.function)]

\* each handler maps (entry, lines, call_stack) to the two lists it leaves
handle_entering(entry, lns, stack) ==
    [lines      |-> Append(lns, StackTopOrUser(stack) \o "->"
                                 \o Str(entry.function) \o ": " \o Str(entry.action)),
     call_stack |-> Append(stack, entry.function)]

\* handle_exiting that pops whatever is on top, without comparing it
handle_exiting_AnyTop(entry, lns, stack) ==
    IF Len(stack) > 0
    THEN [lines      |-> Append(lns, Str(entry.function) \o "-->"
                             \o StackTopOrUser(SubSeq(stack, 1, Len(stack) - 1))
                             \o ": " \o Str(entry.action)),
          call_stack |-> SubSeq(stack, 1, Len(stack) - 1)]
    ELSE [lines |-> lns, call_stack |-> stack]

\* handle_exiting that emits the return line but leaves the stack as it is
handle_exiting_NoPop(entry, lns, stack) ==
    IF Len(stack) > 0 /\ stack[Len(stack)] = entry.function
    THEN [lines      |-> Append(lns, Str(entry.function) \o "-->"
                             \o StackTopOrUser(SubSeq(stack, 1, Len(stack) - 1))
                             \o ": " \o Str(entry.action)),
          call_stack |-> stack]
    ELSE [lines |-> lns, call_stack |-> stack]

handle_exiting(entry, lns, stack) ==
    IF Len(stack) > 0 /\ stack[Len(stack)] = entry.function
    THEN LET popped == SubSeq(stack, 1, Len(stack) - 1)
         IN  [lines      |-> Append(lns, Str(entry.function) \o "-->"
                                         \o StackTopOrUser(popped) \o ": "
                                         \o Str(entry.action)),
              call_stack |-> popped]
    ELSE [lines |-> lns, call_stack |-> stack]

handle_command(entry, lns, stack) ==
    [lines      |-> Append(lns, "note over User: " \o Str(entry.message)),
     call_stack |-> stack]

handle_info(entry, lns, stack) ==
    IF Truthy(entry.message)
    THEN [lines      |-> Append(lns, "note right of " \o Str(entry.function) \o ": "
                                     \o Prefix(entry.message, max_note_len) \o "..."),
          call_stack |-> stack]
    ELSE [lines |-> lns, call_stack |-> stack]

\* _process_sequence_action: dispatch on entry.action, no default handler
process_sequence_action(entry, lns, stack) ==
    CASE entry.action = "entering" -> handle_entering(entry, lns, stack)
      [] entry.action = "exiting"  -> handle_exiting(entry, lns, stack)
      [] entry.action = "command"  -> handle_command(entry, lns, stack)
      [] entry.action = "info"     -> handle_info(entry, lns, stack)
      [] OTHER                     -> [lines |-> lns, call_stack |-> stack]

\* the state _build_sequence_diagram starts its loop with
SequenceStart ==
    [lines        |-> <<"@startuml", "title QDMA Driver Function Call Sequence",
                        "participant User">>,
     participants |-> {"User"},
     call_stack   |-> <<>>]

\* SequenceStep that declares the participant without looking it up
SequenceStep_AlwaysDeclare(st, entry) ==
    LET declared == Append(st.lines, "participant " \o Str(entry.function))
        acted    == process_sequence_action(entry, declared, st.call_stack)
    IN  [lines        |-> acted.lines,
         participants |-> st.participants \cup {entry.function},
         call_stack   |-> acted.call_stack]

\* one iteration of the loop of _build_sequence_diagram
SequenceStep(st, entry) ==
    LET fresh    == entry.function \notin st.participants
        declared == IF fresh
                    THEN Append(st.lines, "participant " \o Str(entry.function))
                    ELSE st.lines
        acted    == process_sequence_action(entry, declared, st.call_stack)
    IN  [lines        |-> acted.lines,
         participants |-> st.participants \cup {entry.function},
         call_stack   |-> acted.call_stack]

RECURSIVE SequenceLoop(_, _, _)
SequenceLoop(st, es, k) ==
    IF k > Len(es) THEN st ELSE SequenceLoop(SequenceStep(st, es[k]), es, k + 1)

RECURSIVE Join(_, _)
\* sep.join(parts)
Join(parts, sep) ==
    IF Len(parts) = 0 THEN ""
    ELSE IF Len(parts) = 1 THEN parts[1]
    ELSE parts[1] \o sep \o Join(Tail(parts), sep)

\* _build_sequence_diagram: the list of lines before the final join
sequence_lines(es) == Append(SequenceLoop(SequenceStart, es, 1).lines, "@enduml")

build_sequence_diagram(es) == Join(sequence_lines(es), "\n")

(***************************************************************************)
(* _DiagramGenerator: the activity builder                                 *)
(***************************************************************************)
\* the slice lengths of _build_activity_diagram
activity_cmd_len == 30
activity_note_len == 40

\* the lines one entry adds
ActivityStep(entry) ==
    CASE entry.action = "entering" -> <<":Enter " \o Str(entry.function) \o ";">>
      [] entry.action = "exiting"  -> <<":Exit " \o Str(entry.function) \o ";">>
      [] entry.action = "command"  ->
            <<":Execute Command\\n" \o Prefix(entry.message, activity_cmd_len)
                  \o "..." \o ";">>
      [] entry.action = "info"     ->
            <<"note right: " \o Prefix(entry.message, activity_note_len) \o "...">>
      [] OTHER                     -> <<>>

\* slicing a message that is None raises TypeError
ActivityRaises(es) ==
    \E k \in 1..Len(es) :
        es[k].action \in {"command", "info"} /\ es[k].message = NoneVal

RECURSIVE ActivityLoop(_, _)
ActivityLoop(es, k) ==
    IF k > Len(es) THEN <<>> ELSE ActivityStep(es[k]) \o ActivityLoop(es, k + 1)

activity_lines(es) ==
    <<"@startuml", "title QDMA Driver Activity Flow", "start">>
        \o ActivityLoop(es, 1) \o <<"stop", "@enduml">>

build_activity_diagram(es) == Join(activity_lines(es), "\n")

(***************************************************************************)
(* _DiagramGenerator: the component builder                                *)
(***************************************************************************)
\* the word characters in code point order
WordOrder == "0123456789ABCDEFGHIJKLMNOPQRSTUVWXYZ_abcdefghijklmnopqrstuvwxyz"

Ord(c) == CHOOSE i \in 1..Len(WordOrder) : Ch(WordOrder, i) = c

RECURSIVE StrLess(_, _)
\* a < b on Python strings of word characters
StrLess(a, b) ==
    IF Len(b) = 0 THEN FALSE
    ELSE IF Len(a) = 0 THEN TRUE
    ELSE IF Ch(a, 1) = Ch(b, 1)
    THEN StrLess(SubSeq(a, 2, Len(a)), SubSeq(b, 2, Len(b)))
    ELSE Ord(Ch(a, 1)) < Ord(Ch(b, 1))

RECURSIVE Sorted(_)
\* sorted(S) for a set of strings
Sorted(S) ==
    IF S = {} THEN <<>>
    ELSE LET m == CHOOSE x \in S : \A y \in S \ {x} : StrLess(x, y)
         IN  <<m>> \o Sorted(S \ {m})

\* pass 1's dict: module -> set of function names
module_funcs(es) ==
    [m \in {es[k].module : k \in 1..Len(es)} |->
        {es[k].function : k \in {j \in 1..Len(es) : es[j].module = m}}]

RECURSIVE ComponentLines(_, _)
ComponentLines(funcs, k) ==
    IF k > Len(funcs) THEN <<>>
    ELSE <<"  component " \o funcs[k]>> \o ComponentLines(funcs, k + 1)

RECURSIVE PackageLines(_, _, _)
\* "Generate components": one package block per module, in sorted order
PackageLines(mf, modules, k) ==
    IF k > Len(modules) THEN <<>>
    ELSE <<"package " \o modules[k] \o " {">>
             \o ComponentLines(Sorted(mf[modules[k]]), 1)
             \o <<"}">>
             \o PackageLines(mf, modules, k + 1)

\* an iteration that treats every entry as an `entering` entry
InteractionStep_AnyAction(prev, entry) ==
    [lines |-> IF Truthy(prev) /\ prev # entry.function
               THEN <<prev \o " --> " \o entry.function>> ELSE <<>>,
     prev  |-> entry.function]

\* one iteration of "Generate interactions": the lines it adds and the new
\* prev_func (prev is prev_func, NoneVal at the start)
InteractionStep(prev, entry) ==
    IF entry.action = "entering"
    THEN [lines |-> IF Truthy(prev) /\ prev # entry.function
                    THEN <<prev \o " --> " \o entry.function>> ELSE <<>>,
          prev  |-> entry.function]
    ELSE [lines |-> <<>>, prev |-> prev]

RECURSIVE InteractionLoop(_, _, _)
InteractionLoop(es, k, prev) ==
    IF k > Len(es) THEN <<>>
    ELSE InteractionStep(prev, es[k]).lines
             \o InteractionLoop(es, k + 1, InteractionStep(prev, es[k]).prev)

\* the lines of "Group by modules" and "Generate components"
component_header(es) ==
    <<"@startuml", "title QDMA Driver Component Interaction">>
        \o PackageLines(module_funcs(es), Sorted(DOMAIN module_funcs(es)), 1)

component_lines(es) ==
    component_header(es) \o InteractionLoop(es, 1, NoneVal) \o <<"@enduml">>

build_component_diagram(es) == Join(component_lines(es), "\n")

(***************************************************************************)
(* _PlantUMLEncoder                                                        *)
(***************************************************************************)
\* _CFG['enc_alphabet']
enc_alphabet == "0123456789ABCDEFGHIJKLMNOPQRSTUVWXYZabcdefghijklmnopqrstuvwxyz-_"

\* _CFG['srv_url']
srv_url == "http://www.plantuml.com/plantuml/png/"

\* _CFG['chunk_size']
chunk_size == 3

\* self._alphabet[n], n counted from 0
AlphabetAt(n) == Ch(enc_alphabet, n + 1)

\* data[k] if k < len(data) else 0, k counted from 0
ByteOrZero(data, k) == IF k < Len(data) THEN data[k + 1] ELSE 0

RECURSIVE EncodeLoop_NoFill(_, _)
\* a loop that emits characters only for the bytes the last group has
EncodeLoop_NoFill(data, i) ==
    IF i >= Len(data) THEN ""
    ELSE LET t0 == data[i + 1]
             t1 == ByteOrZero(data, i + 1)
             t2 == ByteOrZero(data, i + 2)
             have == Len(data) - i
         IN  AlphabetAt(t0 \div 4)
                 \o AlphabetAt(((t0 % 4) * 16) + (t1 \div 16))
                 \o (IF have >= 2
                     THEN AlphabetAt(((t1 % 16) * 4) + (t2 \div 64)) ELSE "")
                 \o (IF have >= 3 THEN AlphabetAt(t2 % 64) ELSE "")
                 \o EncodeLoop_NoFill(data, i + chunk_size)

RECURSIVE EncodeLoop(_, _)
\* the while loop of _encode_b64_custom, i counted from 0; the shifts and
\* masks on bytes are written with \div and %
EncodeLoop(data, i) ==
    IF i >= Len(data) THEN ""
    ELSE LET t0 == data[i + 1]
             t1 == ByteOrZero(data, i + 1)
             t2 == ByteOrZero(data, i + 2)
         IN  AlphabetAt(t0 \div 4)
                 \o AlphabetAt(((t0 % 4) * 16) + (t1 \div 16))
                 \o AlphabetAt(((t1 % 16) * 4) + (t2 \div 64))
                 \o AlphabetAt(t2 % 64)
                 \o EncodeLoop(data, i + chunk_size)

encode_b64_custom(data) == EncodeLoop(data, 0)

\* generate_url, given the bytes _compress_data returned for the text
generate_url(compressed) == srv_url \o encode_b64_custom(compressed)

\* _compress_data runs zlib, a library outside the repository: its result
\* is one of these raw deflate streams (zlib.compress(t)[2:-4] of "", "a",
\* "ab" and "@startuml\n@enduml"), whatever the text
DeflateStreams ==
    {<<3, 0>>, <<75, 4, 0>>, <<75, 76, 2, 0>>,
     <<115, 40, 46, 73, 44, 42, 41, 205, 205, 225, 114, 72, 205, 75, 1, 210, 0>>}

(***************************************************************************)
(* version4.py: _generate_url._to_custom_b64                               *)
(***************************************************************************)
\* the local alphabet of _to_custom_b64
abc == "0123456789ABCDEFGHIJKLMNOPQRSTUVWXYZabcdefghijklmnopqrstuvwxyz-_"

RECURSIVE ToCustomB64Loop(_, _)
\* the while loop of _to_custom_b64, i counted from 0; the shifts and masks
\* on bytes are written with \div and %
ToCustomB64Loop(bs, i) ==
    IF i >= Len(bs) THEN ""
    ELSE LET b1 == bs[i + 1]
             b2 == IF i + 1 < Len(bs) THEN bs[i + 2] ELSE 0
             b3 == IF i + 2 < Len(bs) THEN bs[i + 3] ELSE 0
         IN  Ch(abc, (b1 \div 4) + 1)
                 \o Ch(abc, (((b1 % 4) * 16) + (b2 \div 16)) + 1)
                 \o Ch(abc, (((b2 % 16) * 4) + (b3 \div 64)) + 1)
                 \o Ch(abc, (b3 % 64) + 1)
                 \o ToCustomB64Loop(bs, i + 3)

to_custom_b64(bs) == ToCustomB64Loop(bs, 0)

(***************************************************************************)
(* _DiagramGenerator.generate_diagram                                     *)
(***************************************************************************)
DiagramTypes == {"Sequence Diagram", "Activity Diagram", "Component Diagram"}

\* generators.get(diagram_type)(entries): [raised, puml]
run_generator(es, dtype) ==
    CASE dtype = "Sequence Diagram" ->
            [raised |-> FALSE, puml |-> build_sequence_diagram(es)]
      [] dtype = "Activity Diagram" ->
            IF ActivityRaises(es) THEN [raised |-> TRUE, puml |-> ""]
            ELSE [raised |-> FALSE, puml |-> build_activity_diagram(es)]
      [] dtype = "Component Diagram" ->
            [raised |-> FALSE, puml |-> build_component_diagram(es)]

(***************************************************************************)
(* _FilterEngine                                                           *)
(***************************************************************************)
Facets == {"functions", "modules", "actions", "threads"}

\* `not filters.get(facet)`: the key is missing or its list is empty
NoSelection(flt, facet) == facet \notin DOMAIN flt \/ Len(flt[facet]) = 0

\* `value in filters[facet]`
InList(value, list) == \E k \in 1..Len(list) : list[k] = value

\* passes_filters without the `not entry.thread_id` alternative
passes_filters_ThreadRequired(entry, flt) ==
    /\ NoSelection(flt, "functions") \/ InList(entry.function, flt["functions"])
    /\ NoSelection(flt, "modules") \/ InList(entry.module, flt["modules"])
    /\ NoSelection(flt, "actions") \/ InList(entry.action, flt["actions"])
    /\ NoSelection(flt, "threads") \/ InList(entry.thread_id, flt["threads"])

\* the condition of apply_filters' loop body
passes_filters(entry, flt) ==
    /\ NoSelection(flt, "functions") \/ InList(entry.function, flt["functions"])
    /\ NoSelection(flt, "modules") \/ InList(entry.module, flt["modules"])
    /\ NoSelection(flt, "actions") \/ InList(entry.action, flt["actions"])
    /\ \/ NoSelection(flt, "threads")
       \/ ~Truthy(entry.thread_id)
       \/ InList(entry.thread_id, flt["threads"])

RECURSIVE FilterLoop(_, _, _)
FilterLoop(es, flt, k) ==
    IF k > Len(es) THEN <<>>
    ELSE (IF passes_filters(es[k], flt) THEN <<es[k]>> ELSE <<>>)
             \o FilterLoop(es, flt, k + 1)

apply_filters(es, flt) == FilterLoop(es, flt, 1)

\* extract_metadata: the dict of four empty sets it starts from
empty_metadata ==
    [functions |-> {}, modules |-> {}, actions |-> {}, threads |-> {}]

\* a loop body that adds the thread id without testing it
metadata_add_AnyThread(md, entry) ==
    [functions |-> md.functions \cup {entry.function},
     modules   |-> md.modules \cup {entry.module},
     actions   |-> md.actions \cup {entry.action},
     threads   |-> md.threads \cup {entry.thread_id}]

\* the body of the loop of extract_metadata
metadata_add(md, entry) ==
    [functions |-> md.functions \cup {entry.function},
     modules   |-> md.modules \cup {entry.module},
     actions   |-> md.actions \cup {entry.action},
     threads   |-> IF Truthy(entry.thread_id)
                   THEN md.threads \cup {entry.thread_id}
                   ELSE md.threads]

RECURSIVE MetadataLoop(_, _, _)
MetadataLoop(es, k, md) ==
    IF k > Len(es) THEN md
    ELSE MetadataLoop(es, k + 1, metadata_add(md, es[k]))

extract_metadata(es) == MetadataLoop(es, 1, empty_metadata)

(***************************************************************************)
(* _LegacyParser                                                           *)
(***************************************************************************)
RECURSIVE Upper(_)
\* str.upper()
Upper(s) ==
    IF Len(s) = 0 THEN ""
    ELSE LET c == Ch(s, 1)
         IN  (IF c \in LowerLetters
              THEN CHOOSE u \in UpperLetters : UpperToLower[u] = c ELSE c)
                 \o Upper(SubSeq(s, 2, Len(s)))

\* one iteration of the loop of parse_to_puml on [lines, participants]
LegacyStep(st, line) ==
    LET match == match_pattern(Strip(line), "legacy_func")
    IN  IF match = NoMatch THEN st
        ELSE LET fn       == match[1]
                 action   == match[2]
                 declared == IF fn \notin st.participants
                             THEN Append(st.lines, "participant " \o fn)
                             ELSE st.lines
                 arrow    ==
                     IF Lower(action) \in {"entering", "called", "command", "retry"}
                     THEN "Caller -> " \o fn \o ": " \o action
                     ELSE IF Lower(action) \in {"exiting", "completed"}
                     THEN fn \o " --> Caller: " \o action
                     ELSE "note right of " \o fn \o ": " \o Upper(action)
             IN  [lines        |-> Append(declared, arrow),
                  participants |-> st.participants \cup {fn}]

RECURSIVE LegacyLoop(_, _, _)
LegacyLoop(st, ls, k) ==
    IF k > Len(ls) THEN st ELSE LegacyLoop(LegacyStep(st, ls[k]), ls, k + 1)

legacy_lines(ls) ==
    Append(LegacyLoop([lines |-> <<"@startuml", "participant Caller">>,
                       participants |-> {"Caller"}], ls, 1).lines,
           "@enduml")

parse_to_puml(ls) == Join(legacy_lines(ls), "\n")

(***************************************************************************)
(* Inputs                                                                  *)
(***************************************************************************)
Range(f) == {f[x] : x \in DOMAIN f}

\* all sequences over S of length 0..n
SeqsUpTo(S, n) == UNION {[1..k -> S] : k \in 0..n}

\* the entries the primary parser makes of a set of lines
EntriesOf(ls) == UNION {Range(parse_qdma_entry(l)) : l \in ls}

\* values of the variables a specification does not use
IdleMain     == lines = <<>> /\ diagram_type = NoneVal /\ url = NoneVal
IdleBuilder  == idx = 0 /\ out = <<>> /\ puml = NoneVal
IdleSequence == participants = {} /\ call_stack = <<>>
IdleFilter   == filters = <<>> /\ filtered = <<>>
IdleCompare  == left = NoneVal /\ right = NoneVal /\ eq_result = NoneVal
IdleMetadata == metadata = NoneVal
IdleEncoder  == enc_input = <<>> /\ encoded = NoneVal /\ encoded_v4 = NoneVal

(***************************************************************************)
(* SpecSeq: _build_sequence_diagram, one loop iteration per step           *)
(***************************************************************************)
MaxSeqEntries == 4

SeqLines ==
    {"[0.1] pf:init: ----- QDMA entering the probe function at x [Thread ID: 5]",
     "[0.2] pf:probe: ----- QDMA exiting the probe function at x [Thread ID: 5]",
     "[0.3] pf:probe: ----- QDMA entering the open function at y [Thread ID: 7]",
     "[0.4] pf:open: ----- QDMA exiting the open function at y [Thread ID: 7]",
     "[0.5] qdma_pf:init: ----- QDMA ENTERING the probe function at x [Thread ID: 5]",
     "[0.6] Command: ls -l",
     "[0.7] vf:User: device 0000:01:00.0 opened with 512 queues and 8 MSI-X vectors",
     "[0.8] vf:open: ok"}

SeqEntries == EntriesOf(SeqLines)

InitSeq ==
    /\ entries \in SeqsUpTo(SeqEntries, MaxSeqEntries)
    /\ pc = "loop"
    /\ idx = 1
    /\ out = SequenceStart.lines
    /\ participants = SequenceStart.participants
    /\ call_stack = SequenceStart.call_stack
    /\ puml = NoneVal
    /\ prev_func = NoneVal
    /\ IdleMain /\ IdleFilter /\ IdleCompare
    /\ IdleMetadata /\ IdleEncoder

\* the body of `for entry in entries`
SeqIterate ==
    /\ pc = "loop"
    /\ idx <= Len(entries)
    /\ LET st == SequenceStep([lines |-> out, participants |-> participants,
                               call_stack |-> call_stack], entries[idx])
       IN  /\ out' = st.lines
           /\ participants' = st.participants
           /\ call_stack' = st.call_stack
    /\ idx' = idx + 1
    /\ UNCHANGED <<pc, lines, diagram_type, entries, prev_func, puml, url,
                   filters, filtered, left, right, eq_result,
                   metadata, enc_input, encoded, encoded_v4>>

\* after the loop: append "@enduml" and join
SeqFinish ==
    /\ pc = "loop"
    /\ idx > Len(entries)
    /\ out' = Append(out, "@enduml")
    /\ puml' = Join(out', "\n")
    /\ pc' = "done"
    /\ UNCHANGED <<lines, diagram_type, entries, idx, participants, call_stack,
                   prev_func, url, filters, filtered, left, right, eq_result,
                   metadata, enc_input, encoded, encoded_v4>>

NextSeq == SeqIterate \/ SeqFinish

SpecSeq == InitSeq /\ [][NextSeq]_vars

(***************************************************************************)
(* Properties of the sequence builder                                      *)
(***************************************************************************)
\* the entry of SeqEntries for function f with action a
SeqEntry(f, a) == CHOOSE e \in SeqEntries : e.function = f /\ e.action = a

\* the loop is about to process an entry with action a
AtEntry(a) == pc = "loop" /\ idx <= Len(entries) /\ entries[idx].action = a

\* `lines` once the loop body has declared function f where it is new
AfterDeclaring(f) ==
    IF f \in participants THEN out ELSE Append(out, "participant " \o f)

\* the two ends of an arrow line `X->Y: ...` or `X-->Y: ...`, else {}
ArrowEnds(l) ==
    LET x == Span(l, 1, WordChars)
    IN  IF x = 1 THEN {}
        ELSE IF At(l, x, "-->")
        THEN {SubSeq(l, 1, x - 1), SubSeq(l, x + 3, Span(l, x + 3, WordChars) - 1)}
        ELSE IF At(l, x, "->")
        THEN {SubSeq(l, 1, x - 1), SubSeq(l, x + 2, Span(l, x + 2, WordChars) - 1)}
        ELSE {}

IsArrow(l) == ArrowEnds(l) # {}

\* the participant a note line is attached to, else {}
NoteTarget(l) ==
    IF At(l, 1, "note right of ")
    THEN {SubSeq(l, 15, Span(l, 15, WordChars) - 1)}
    ELSE IF At(l, 1, "note over ")
    THEN {SubSeq(l, 11, Span(l, 11, WordChars) - 1)}
    ELSE {}

IsParticipantLine(l) == At(l, 1, "participant ")

RECURSIVE FirstSeen(_, _, _)
\* the distinct function names of es[k..], not in seen, in order of first occurrence
FirstSeen(es, k, seen) ==
    IF k > Len(es) THEN <<>>
    ELSE IF es[k].function \in seen THEN FirstSeen(es, k + 1, seen)
    ELSE <<es[k].function>> \o FirstSeen(es, k + 1, seen \cup {es[k].function})

\* C1, step: an `exiting` entry for f acts only when the stack is non-empty
\* with f on top: the stack is popped and the one line `f-->newTop: exiting`
\* is emitted (newTop the new top, or User); otherwise the handler emits no
\* line and leaves the stack as it is.
C1_ExitStep ==
    AtEntry("exiting") =>
        LET f == entries[idx].function
            n == Len(call_stack)
        IN  IF n > 0 /\ call_stack[n] = f
            THEN /\ call_stack' = SubSeq(call_stack, 1, n - 1)
                 /\ out' = Append(AfterDeclaring(f),
                                  f \o "-->"
                                    \o (IF n > 1 THEN call_stack[n - 1] ELSE "User")
                                    \o ": exiting")
            ELSE /\ call_stack' = call_stack
                 /\ out' = AfterDeclaring(f)

\* C1, examples: after [entering(A), exiting(B)] there is no exiting edge and
\* the stack is [A]; [entering(A), entering(B), exiting(B), exiting(A)] emits
\* User->A, A->B, B-->A, A-->User in that order.
C1_Examples ==
    /\ (entries = <<SeqEntry("probe", "entering"), SeqEntry("open", "exiting")>>
            /\ idx = 3)
        => /\ call_stack = <<"probe">>
           /\ \A i \in 1..Len(out) : ~Contains(out[i], "-->")
    /\ (entries = <<SeqEntry("probe", "entering"), SeqEntry("open", "entering"),
                    SeqEntry("open", "exiting"), SeqEntry("probe", "exiting")>>
            /\ pc = "done")
        => SelectSeq(out, IsArrow)
               = <<"User->probe: entering", "probe->open: entering",
                   "open-->probe: exiting", "probe-->User: exiting">>

\* C1: an exiting entry pops and emits its return edge exactly when it
\* matches the top of the call stack, and is ignored otherwise.
C1_ExitingLifo == [][C1_ExitStep]_vars /\ []C1_Examples

\* a matched exit has returned to an enclosing function, and a mismatched
\* exit has been ignored with the stack non-empty
C1_Witness ==
    /\ pc = "done"
    /\ entries = <<SeqEntry("probe", "entering"), SeqEntry("open", "entering"),
                   SeqEntry("probe", "exiting"), SeqEntry("open", "exiting")>>
    /\ call_stack = <<"probe">>
    /\ SelectSeq(out, IsArrow)
           = <<"User->probe: entering", "probe->open: entering",
               "open-->probe: exiting">>

\* C2, step: an `entering` entry for f emits the one line `caller->f:
\* entering`, caller the stack top or User, and pushes f.
C2_EnterStep ==
    AtEntry("entering") =>
        LET f == entries[idx].function
            n == Len(call_stack)
        IN  /\ out' = Append(AfterDeclaring(f),
                             (IF n > 0 THEN call_stack[n] ELSE "User")
                                 \o "->" \o f \o ": entering")
            /\ call_stack' = Append(call_stack, f)
            /\ Len(call_stack') = n + 1
            /\ call_stack'[n + 1] = f

\* C2: every entering entry, in any stack state, emits its call edge from
\* the current top (or User) and pushes its function.
C2_EnteringPushes == [][C2_EnterStep]_vars

\* a function that was already on top of the stack has been entered again
C2_Witness ==
    /\ call_stack = <<"probe", "probe">>
    /\ out[Len(out)] = "probe->probe: entering"

\* C9: the sequence builder's output starts with @startuml and ends with
\* @enduml; its participant lines are `participant User` followed by one
\* line per distinct function name other than User, in first-seen order;
\* every arrow or note comes after the participant line of each name it
\* mentions.
C9_SequenceParticipants ==
    pc = "done" =>
        /\ out[1] = "@startuml"
        /\ out[Len(out)] = "@enduml"
        /\ At(puml, 1, "@startuml\n")
        /\ At(puml, Len(puml) - 7, "\n@enduml")
        /\ LET fs == FirstSeen(entries, 1, {"User"})
           IN  SelectSeq(out, IsParticipantLine)
                   = <<"participant User">>
                         \o [k \in 1..Len(fs) |-> "participant " \o fs[k]]
        /\ \A j \in 1..Len(out) :
              \A f \in ArrowEnds(out[j]) \cup NoteTarget(out[j]) :
                  \E i \in 1..(j - 1) : out[i] = "participant " \o f

\* a finished diagram in which probe was seen before open (not the sorted
\* order), probe occurs twice and an entry names the root User
C9_Witness ==
    /\ pc = "done"
    /\ Len(entries) = 4
    /\ entries[1].function = "probe"
    /\ entries[2].function = "open"
    /\ entries[3].function = "probe"
    /\ entries[4].function = "User"
    /\ SelectSeq(out, IsParticipantLine)
           = <<"participant User", "participant probe", "participant open">>

IsReturnLine(l) == IsArrow(l) /\ At(l, Span(l, 1, WordChars), "-->")

IsCallLine(l) == IsArrow(l) /\ ~IsReturnLine(l)

\* the names the participant lines emitted so far declare
DeclaredNames ==
    {SubSeq(out[i], 13, Len(out[i])) :
        i \in {j \in 1..Len(out) : IsParticipantLine(out[j])}}

RECURSIVE MatchedExits(_, _, _)
\* how many `exiting` entries among entries[k..n] find their function on top
\* of the stack, which is `stack` before entry k and follows the push/pop
\* discipline from there
MatchedExits(k, n, stack) ==
    IF k > n THEN 0
    ELSE IF entries[k].action = "entering"
    THEN MatchedExits(k + 1, n, Append(stack, entries[k].function))
    ELSE IF /\ entries[k].action = "exiting"
            /\ Len(stack) > 0
            /\ stack[Len(stack)] = entries[k].function
    THEN 1 + MatchedExits(k + 1, n, SubSeq(stack, 1, Len(stack) - 1))
    ELSE MatchedExits(k + 1, n, stack)

\* C14: after any prefix of the entries, the call stack holds only declared
\* participants, its depth is the number of `entering` entries processed
\* minus the number of `exiting` entries that matched the stack top, both
\* ends of every arrow emitted are User or a declared participant, and
\* there are no more `-->` return lines than `->` call lines.
C14_SequenceInvariant ==
    pc \in {"loop", "done"} =>
        LET n == idx - 1
            entered == Cardinality({k \in 1..n : entries[k].action = "entering"})
        IN  /\ \A i \in 1..Len(call_stack) :
                   call_stack[i] \in participants \cap DeclaredNames
            /\ Len(call_stack) = entered - MatchedExits(1, n, <<>>)
            /\ \A j \in 1..Len(out) :
                   ArrowEnds(out[j]) \subseteq ({"User"} \cup DeclaredNames)
            /\ Len(SelectSeq(out, IsReturnLine)) <= Len(SelectSeq(out, IsCallLine))

\* four entries processed: an exit that does not match the top, two calls
\* and one matched exit leave a stack of depth 1
C14_Witness ==
    /\ pc = "loop"
    /\ idx = 5
    /\ entries = <<SeqEntry("probe", "entering"), SeqEntry("open", "exiting"),
                   SeqEntry("open", "entering"), SeqEntry("open", "exiting")>>
    /\ call_stack = <<"probe">>
    /\ Len(SelectSeq(out, IsCallLine)) = 2
    /\ Len(SelectSeq(out, IsReturnLine)) = 1

(***************************************************************************)
(* Spec: main(), from "Generate Diagram" to the image shown                *)
(***************************************************************************)
MaxLines == 3

MainLines ==
    {"[0.1] pf:init: ----- QDMA entering the probe function at x [Thread ID: 5]",
     "[0.2] pf:probe: ----- QDMA exiting the probe function at x [Thread ID: 5]",
     "[0.3] qdma_pf:init: ----- QDMA ENTERING the probe function at x [Thread ID: 5]",
     "[0.4] pf:init: ----- qdma entering the open function at y [Thread ID: 7]",
     "[0.5] Command: ls -l",
     "Function foo is called",
     "Function foo is completed",
     "function bar was Skipped today"}

\* n blank lines in front of the log
BlankLines(n) == [k \in 1..n |-> ""]

\* what _compress_data can return: a deflate stream, or the empty default
\* of its error handler
CompressResults == DeflateStreams \cup {<<>>}

\* the states in which a run of main() has ended
Ended == {"no_content", "raised", "legacy_shown", "shown"}

Init ==
    /\ \E body \in SeqsUpTo(MainLines, MaxLines), n \in {0, preview_lines} :
           lines = BlankLines(n) \o body
    /\ diagram_type \in DiagramTypes
    /\ pc = "submit"
    /\ entries = <<>>
    /\ puml = NoneVal
    /\ url = NoneVal
    /\ idx = 0 /\ out = <<>> /\ prev_func = NoneVal
    /\ IdleSequence /\ IdleFilter /\ IdleCompare
    /\ IdleMetadata /\ IdleEncoder

\* main: `if not log_lines: st.error(...); return`
ProcessInput ==
    /\ pc = "submit"
    /\ pc' = IF Len(lines) = 0 THEN "no_content" ELSE "parse"
    /\ UNCHANGED <<lines, diagram_type, entries, idx, out, participants,
                   call_stack, prev_func, puml, url, filters, filtered, left,
                   right, eq_result,
                   metadata, enc_input, encoded, encoded_v4>>

\* main: entries = parser.parse_lines(log_lines); an exception ends the run
ParseLines ==
    /\ pc = "parse"
    /\ LET r == parse_lines(lines, NoneVal)
       IN  /\ pc' = IF r.raised THEN "raised" ELSE "parsed"
           /\ entries' = r.entries
    /\ UNCHANGED <<lines, diagram_type, idx, out, participants, call_stack,
                   prev_func, puml, url, filters, filtered, left, right,
                   eq_result,
                   metadata, enc_input, encoded, encoded_v4>>

\* main: `if not entries:` the legacy parser builds the diagram
LegacyFallback ==
    /\ pc = "parsed"
    /\ Len(entries) = 0
    /\ puml' = parse_to_puml(lines)
    /\ \E compressed \in CompressResults : url' = generate_url(compressed)
    /\ pc' = "legacy_shown"
    /\ UNCHANGED <<lines, diagram_type, entries, idx, out, participants,
                   call_stack, prev_func, filters, filtered, left, right,
                   eq_result,
                   metadata, enc_input, encoded, encoded_v4>>

\* main: diagram_gen.generate_diagram(entries, diagram_type)
GenerateDiagram ==
    /\ pc = "parsed"
    /\ Len(entries) > 0
    /\ LET r == run_generator(entries, diagram_type)
       IN  IF r.raised
           THEN pc' = "raised" /\ UNCHANGED <<puml, url,
                   metadata, enc_input, encoded, encoded_v4>>
           ELSE /\ puml' = r.puml
                /\ \E compressed \in CompressResults :
                       url' = generate_url(compressed)
                /\ pc' = "shown"
    /\ UNCHANGED <<lines, diagram_type, entries, idx, out, participants,
                   call_stack, prev_func, filters, filtered, left, right,
                   eq_result,
                   metadata, enc_input, encoded, encoded_v4>>

Next == ProcessInput \/ ParseLines \/ LegacyFallback \/ GenerateDiagram

Spec == Init /\ [][Next]_vars

(***************************************************************************)
(* Properties of the pipeline                                              *)
(***************************************************************************)
\* the closed vocabulary of actions
Vocabulary ==
    {"entering", "exiting", "command", "info", "called", "completed",
     "error", "retry", "skipped"}

FooLines == <<"Function foo is called", "Function foo is completed">>

\* the text is a diagram: bracketed by @startuml and @enduml
Bracketed(text) ==
    /\ text # NoneVal
    /\ At(text, 1, "@startuml\n")
    /\ At(text, Len(text) - 7, "\n@enduml")

\* the text has the line l
HasLine(text, l) ==
    text # NoneVal /\ (Contains(text, "\n" \o l \o "\n") \/ At(text, 1, l \o "\n"))

\* C3: when the primary parse of a non-empty input yields no entry, the
\* legacy builder runs on the lines and a bracketed diagram is encoded into
\* a URL; the run on ["Function foo is called", "Function foo is completed"]
\* reaches the legacy builder, whose output has `participant foo`, a call
\* edge from Caller to foo and a return edge from foo to Caller.
C3_LegacyFallback ==
    /\ (pc \in {"legacy_shown", "shown"} /\ Len(entries) = 0)
           => pc = "legacy_shown" /\ Bracketed(puml) /\ At(url, 1, srv_url)
    /\ (pc \in Ended /\ lines = FooLines)
           => /\ pc = "legacy_shown"
              /\ HasLine(puml, "participant foo")
              /\ HasLine(puml, "Caller -> foo: called")
              /\ HasLine(puml, "foo --> Caller: completed")

\* C4: no exception leaves the core pipeline: detection, parse, builders
\* and encoder all return a value for every list of lines.
C4_NoException == pc # "raised"

\* the entry the full-detail pattern describes for a line it matches
MainEntry(l) ==
    LET g == match_pattern(l, "qdma_main")
    IN  LogEntry(g[1], g[2], g[4], "entering", g[5], NoneVal, Strip(l))

\* the line matches the full-detail pattern with the verb `entering`
IsEnteringLine(l) ==
    LET g == match_pattern(l, "qdma_main")
    IN  g # NoMatch /\ g[3] = "entering"

\* C5: once the parse step of a run is over, every line that matches the
\* full-detail pattern with verb entering has yielded exactly one entry,
\* with action "entering" and the fields of its groups.
C5_EnteringLineParsed ==
    pc \in {"raised", "parsed", "legacy_shown", "shown"} =>
        \A k \in 1..Len(lines) :
            IsEnteringLine(lines[k]) =>
                /\ pc # "raised"
                /\ Cardinality({j \in 1..Len(entries) :
                                   entries[j] = MainEntry(lines[k])})
                       = Cardinality({j \in 1..Len(lines) : lines[j] = lines[k]})

\* C10: every entry the parser produced has an action of the closed
\* vocabulary.
C10_ClosedVocabulary ==
    \A j \in 1..Len(entries) : entries[j].action \in Vocabulary

(***************************************************************************)
(* SpecFilter: _FilterEngine.apply_filters on a list of entries            *)
(***************************************************************************)
MaxFilterEntries == 3

FilterLines ==
    {"[0.1] pf:init: ----- QDMA entering the probe function at x [Thread ID: 5]",
     "[0.2] pf:probe: ----- QDMA exiting the probe function at x [Thread ID: 5]",
     "[0.3] pf:probe: ----- QDMA entering the open function at y [Thread ID: 7]",
     "[0.6] Command: ls -l",
     "[0.8] vf:open: ok"}

FilterEntries == EntriesOf(FilterLines)

\* the selection lists tried for each facet
Selections ==
    [functions |-> {<<>>, <<"probe">>, <<"command", "open">>},
     modules   |-> {<<>>, <<"vf", "pf">>},
     actions   |-> {<<>>, <<"entering", "info">>},
     threads   |-> {<<>>, <<"5">>, <<"7", "9">>}]

\* the selection dicts: any set of facets as keys, each with one of its lists
FilterChoices ==
    UNION {{f \in [D -> UNION Range(Selections)] :
               \A k \in D : f[k] \in Selections[k]} : D \in SUBSET Facets}

InitFilter ==
    /\ entries \in SeqsUpTo(FilterEntries, MaxFilterEntries)
    /\ filters \in FilterChoices
    /\ filtered = <<>>
    /\ pc = "filter"
    /\ prev_func = NoneVal
    /\ IdleMain /\ IdleBuilder /\ IdleSequence /\ IdleCompare
    /\ IdleMetadata /\ IdleEncoder

ApplyFilters ==
    /\ pc = "filter"
    /\ filtered' = apply_filters(entries, filters)
    /\ pc' = "filtered"
    /\ UNCHANGED <<lines, diagram_type, entries, idx, out, participants,
                   call_stack, prev_func, puml, url, filters, left, right,
                   eq_result,
                   metadata, enc_input, encoded, encoded_v4>>

NextFilter == ApplyFilters

SpecFilter == InitFilter /\ [][NextFilter]_vars

\* the facet has a non-empty selection list
Selected(facet) == facet \in DOMAIN filters /\ Len(filters[facet]) > 0

\* the claim's condition for an entry to be kept
Kept(e) ==
    /\ Selected("functions") => e.function \in Range(filters["functions"])
    /\ Selected("modules") => e.module \in Range(filters["modules"])
    /\ Selected("actions") => e.action \in Range(filters["actions"])
    /\ Selected("threads") =>
           e.thread_id = NoneVal \/ e.thread_id \in Range(filters["threads"])

\* C6: apply_filters returns, in input order, exactly the entries whose
\* field is in the selection of every facet that has a non-empty selection,
\* an entry without thread id always passing the thread facet; with no
\* facet selected the result is the input sequence.
C6_ApplyFilters ==
    pc = "filtered" =>
        /\ filtered = SelectSeq(entries, Kept)
        /\ (\A facet \in Facets : ~Selected(facet)) => filtered = entries

\* a thread selection kept an entry without thread id and one of its
\* threads, and dropped an entry of another thread
C6_Witness ==
    /\ pc = "filtered"
    /\ Selected("threads")
    /\ Len(entries) = 3
    /\ Len(filtered) = 2
    /\ filtered[1].thread_id = NoneVal
    /\ filtered[2].thread_id \in Range(filters["threads"])

(***************************************************************************)
(* SpecMeta: _FilterEngine.extract_metadata on a list of entries           *)
(***************************************************************************)
MaxMetaEntries == 3

MetaLines ==
    {"[0.1] pf:init: ----- QDMA entering the probe function at x [Thread ID: 5]",
     "[0.3] pf:probe: ----- QDMA entering the open function at y [Thread ID: 7]",
     "[0.4] vf:init: ----- QDMA exiting the probe function at x [Thread ID: 7]",
     "[0.6] Command: ls -l",
     "[0.7] pf:init: started",
     "[0.8] vf:open: ok"}

MetaEntries == EntriesOf(MetaLines)

InitMeta ==
    /\ entries \in SeqsUpTo(MetaEntries, MaxMetaEntries)
    /\ metadata = NoneVal
    /\ pc = "extract"
    /\ prev_func = NoneVal
    /\ IdleMain /\ IdleBuilder /\ IdleSequence /\ IdleFilter /\ IdleCompare
    /\ IdleEncoder

\* main: metadata = extract_metadata(entries)
ExtractMetadata ==
    /\ pc = "extract"
    /\ metadata' = extract_metadata(entries)
    /\ pc' = "extracted"
    /\ UNCHANGED <<lines, diagram_type, entries, idx, out, participants,
                   call_stack, prev_func, puml, url, filters, filtered, left,
                   right, eq_result, enc_input, encoded, encoded_v4>>

NextMeta == ExtractMetadata

SpecMeta == InitMeta /\ [][NextMeta]_vars

\* the positions of the entries that carry a thread id
WithThread == {i \in DOMAIN entries : entries[i].thread_id # NoneVal}

\* C11: extract_metadata returns four sets; functions, modules and actions
\* are the sets of those fields' values over all entries, and threads is the
\* set of the thread ids of the entries that carry one, so it never holds
\* None.
C11_ExtractMetadata ==
    pc = "extracted" =>
        /\ DOMAIN metadata = Facets
        /\ metadata.functions = {entries[i].function : i \in DOMAIN entries}
        /\ metadata.modules = {entries[i].module : i \in DOMAIN entries}
        /\ metadata.actions = {entries[i].action : i \in DOMAIN entries}
        /\ metadata.threads = {entries[i].thread_id : i \in WithThread}
        /\ NoneVal \notin metadata.threads

\* modules pf and vf, one entry without thread id and one of thread 7
C11_Witness ==
    /\ pc = "extracted"
    /\ Len(entries) = 2
    /\ entries[1].thread_id = NoneVal
    /\ entries[2].thread_id = "7"
    /\ metadata.modules = {"pf", "vf"}
    /\ metadata.threads = {"7"}

(***************************************************************************)
(* SpecEnc: the two custom encoders on one byte sequence                   *)
(***************************************************************************)
MaxEncLen == 4

\* byte values tried: all bits clear, all set, alternating, and values that
\* set the low bits, the high bits and the bits that cross a character
EncBytes == {0, 1, 15, 64, 170, 255}

InitEnc ==
    /\ enc_input \in SeqsUpTo(EncBytes, MaxEncLen) \cup DeflateStreams
    /\ encoded = NoneVal
    /\ encoded_v4 = NoneVal
    /\ pc = "encode"
    /\ entries = <<>>
    /\ prev_func = NoneVal
    /\ IdleMain /\ IdleBuilder /\ IdleSequence /\ IdleFilter /\ IdleCompare
    /\ IdleMetadata

\* a call of _PlantUMLEncoder._encode_b64_custom; it can be called again
EncodeCustom ==
    /\ pc = "encode"
    /\ encoded' = encode_b64_custom(enc_input)
    /\ UNCHANGED <<pc, lines, diagram_type, entries, idx, out, participants,
                   call_stack, prev_func, puml, url, filters, filtered, left,
                   right, eq_result, metadata, enc_input, encoded_v4>>

\* a call of version4's _to_custom_b64; it can be called again
EncodeV4 ==
    /\ pc = "encode"
    /\ encoded_v4' = to_custom_b64(enc_input)
    /\ UNCHANGED <<pc, lines, diagram_type, entries, idx, out, participants,
                   call_stack, prev_func, puml, url, filters, filtered, left,
                   right, eq_result, metadata, enc_input, encoded>>

NextEnc == EncodeCustom \/ EncodeV4

SpecEnc == InitEnc /\ [][NextEnc]_vars

RECURSIVE BitAnd(_, _)
\* x & y on naturals, bit by bit
BitAnd(x, y) ==
    IF x = 0 \/ y = 0 THEN 0
    ELSE ((x % 2) * (y % 2)) + 2 * BitAnd(x \div 2, y \div 2)

RECURSIVE BitOr(_, _)
\* x | y on naturals, bit by bit
BitOr(x, y) ==
    IF x = 0 THEN y
    ELSE IF y = 0 THEN x
    ELSE (IF x % 2 = 1 \/ y % 2 = 1 THEN 1 ELSE 0)
             + 2 * BitOr(x \div 2, y \div 2)

ShiftRight(x, k) == x \div (2 ^ k)
ShiftLeft(x, k) == x * (2 ^ k)

\* ceil(n / 3)
Groups(n) == (n + 2) \div 3

\* byte k (from 0) of the input, 0 when the input has no such byte
InputByte(k) == IF k < Len(enc_input) THEN enc_input[k + 1] ELSE 0

\* the alphabet index the claim gives for character j (1..4) of group g
GroupIndex(g, j) ==
    LET b0 == InputByte(3 * g)
        b1 == InputByte(3 * g + 1)
        b2 == InputByte(3 * g + 2)
    IN  CASE j = 1 -> ShiftRight(b0, 2)
          [] j = 2 -> BitOr(ShiftLeft(BitAnd(b0, 3), 4), ShiftRight(b1, 4))
          [] j = 3 -> BitOr(ShiftLeft(BitAnd(b1, 15), 2), ShiftRight(b2, 6))
          [] j = 4 -> BitAnd(b2, 63)

\* text is the encoding the claim describes of enc_input
EncodedAsClaimed(text) ==
    /\ Len(text) = 4 * Groups(Len(enc_input))
    /\ \A k \in 1..Len(text) : Ch(text, k) # "="
    /\ \A g \in 0..(Groups(Len(enc_input)) - 1) : \A j \in 1..4 :
           /\ GroupIndex(g, j) \in 0..63
           /\ Ch(text, 4 * g + j) = Ch(enc_alphabet, GroupIndex(g, j) + 1)

C12_Encoding ==
    /\ encoded # NoneVal => EncodedAsClaimed(encoded)
    /\ (encoded # NoneVal /\ encoded_v4 # NoneVal) => encoded = encoded_v4

\* calling an encoder again on the same bytes gives the same string
C12_Repeat ==
    /\ encoded # NoneVal => encoded' = encoded
    /\ encoded_v4 # NoneVal => encoded_v4' = encoded_v4

\* C12: for n bytes the custom encoder returns 4*ceil(n/3) characters and
\* no padding character; the characters of each group of 3 bytes, missing
\* bytes taken as 0, are alphabet[b0>>2], alphabet[((b0&3)<<4)|(b1>>4)],
\* alphabet[((b1&0xF)<<2)|(b2>>6)], alphabet[b2&0x3F], every index in 0..63;
\* a second call gives the same string, and version4's encoder gives the
\* same string for the same bytes.
C12_CustomEncoding == []C12_Encoding /\ [][C12_Repeat]_vars

\* four bytes: one full group and a last group of one byte filled with 0
C12_Witness ==
    /\ enc_input = <<255, 170, 15, 64>>
    /\ encoded = "_weFG000"
    /\ encoded_v4 = "_weFG000"

(***************************************************************************)
(* SpecEq: _LogEntry.__eq__ on two entries                                 *)
(***************************************************************************)
EqLines ==
    {"[0.1] pf:init: ----- QDMA entering the probe function at x [Thread ID: 5]",
     "[0.2] pf:probe: ----- QDMA exiting the probe function at x [Thread ID: 5]",
     "[0.3] pf:main: ----- QDMA entering the probe function at z [Thread ID: 6]",
     "[0.4] vf:init: ----- QDMA entering the probe function at x [Thread ID: 5]",
     "[0.5] Command: ls -l",
     "[0.6] ab:c: m",
     "[0.7] ab:c: another message",
     "[0.8] a:bc: m"}

EqEntries == EntriesOf(EqLines)

InitEq ==
    /\ left \in EqEntries
    /\ right \in EqEntries
    /\ eq_result = NoneVal
    /\ pc = "compare"
    /\ entries = <<>>
    /\ prev_func = NoneVal
    /\ IdleMain /\ IdleBuilder /\ IdleSequence /\ IdleFilter
    /\ IdleMetadata /\ IdleEncoder

\* left == right
Compare ==
    /\ pc = "compare"
    /\ eq_result' = entry_eq(left, right)
    /\ pc' = "compared"
    /\ UNCHANGED <<lines, diagram_type, entries, idx, out, participants,
                   call_stack, prev_func, puml, url, filters, filtered, left,
                   right,
                   metadata, enc_input, encoded, encoded_v4>>

NextEq == Compare

SpecEq == InitEq /\ [][NextEq]_vars

\* C7: two entries compare equal iff their (module, function, action)
\* triples are component-wise equal.
C7_EqualIffTriple ==
    pc = "compared" =>
        (eq_result <=> /\ left.module = right.module
                       /\ left.function = right.function
                       /\ left.action = right.action)

(***************************************************************************)
(* SpecComp: _build_component_diagram, pass 1 in one step and one step per *)
(* entry of pass 2                                                         *)
(***************************************************************************)
MaxCompEntries == 3

CompLines ==
    {"[0.1] pf:init: ----- QDMA entering the probe function at x [Thread ID: 5]",
     "[0.2] pf:probe: ----- QDMA exiting the probe function at x [Thread ID: 5]",
     "[0.3] pf:probe: ----- QDMA entering the open function at y [Thread ID: 7]",
     "[0.4] vf:init: ----- QDMA entering the probe function at x [Thread ID: 6]",
     "[0.6] Command: ls -l",
     "[0.8] vf:open: ok"}

CompEntries == EntriesOf(CompLines)

InitComp ==
    /\ entries \in SeqsUpTo(CompEntries, MaxCompEntries)
    /\ pc = "components"
    /\ idx = 0
    /\ out = <<>>
    /\ prev_func = NoneVal
    /\ puml = NoneVal
    /\ IdleMain /\ IdleSequence /\ IdleFilter /\ IdleCompare
    /\ IdleMetadata /\ IdleEncoder

\* "Group by modules" and "Generate components"
CompDeclare ==
    /\ pc = "components"
    /\ out' = component_header(entries)
    /\ idx' = 1
    /\ pc' = "interactions"
    /\ UNCHANGED <<lines, diagram_type, entries, participants, call_stack,
                   prev_func, puml, url, filters, filtered, left, right,
                   eq_result,
                   metadata, enc_input, encoded, encoded_v4>>

\* the body of the loop of "Generate interactions"
CompInteract ==
    /\ pc = "interactions"
    /\ idx <= Len(entries)
    /\ out' = out \o InteractionStep(prev_func, entries[idx]).lines
    /\ prev_func' = InteractionStep(prev_func, entries[idx]).prev
    /\ idx' = idx + 1
    /\ UNCHANGED <<pc, lines, diagram_type, entries, participants, call_stack,
                   puml, url, filters, filtered, left, right, eq_result,
                   metadata, enc_input, encoded, encoded_v4>>

\* after the loop: append "@enduml" and join
CompFinish ==
    /\ pc = "interactions"
    /\ idx > Len(entries)
    /\ out' = Append(out, "@enduml")
    /\ puml' = Join(out', "\n")
    /\ pc' = "done"
    /\ UNCHANGED <<lines, diagram_type, entries, idx, participants, call_stack,
                   prev_func, filters, filtered, url, left, right, eq_result,
                   metadata, enc_input, encoded, encoded_v4>>

NextComp == CompDeclare \/ CompInteract \/ CompFinish

SpecComp == InitComp /\ [][NextComp]_vars

IsPackageLine(l) == At(l, 1, "package ")

\* C8: the component builder emits one package block per distinct module,
\* modules in sorted order, and declares every function name as a component
\* exactly once in the whole output, also when the name occurs in entries
\* of two modules.
C8_ComponentOnce ==
    pc = "done" =>
        /\ SelectSeq(out, IsPackageLine)
               = LET ms == Sorted({entries[k].module : k \in 1..Len(entries)})
                 IN  [k \in 1..Len(ms) |-> "package " \o ms[k] \o " {"]
        /\ \A k \in 1..Len(entries) :
               Cardinality({i \in 1..Len(out) :
                               out[i] = "  component " \o entries[k].function}) = 1

IsEdgeLine(l) == Contains(l, " --> ")

IsEnteringEntry(e) == e.action = "entering"

\* the functions of the `entering` entries among the first n entries
EnteredFunctions(n) ==
    LET es == SelectSeq(SubSeq(entries, 1, n), IsEnteringEntry)
    IN  [k \in 1..Len(es) |-> es[k].function]

DistinctPair(p) == p[1] # p[2]

\* the edges of the consecutive pairs of distinct functions of fs, in order
EdgesOf(fs) ==
    LET pairs == SelectSeq([k \in 1..(Len(fs) - 1) |-> <<fs[k], fs[k + 1]>>],
                           DistinctPair)
    IN  [k \in 1..Len(pairs) |-> pairs[k][1] \o " --> " \o pairs[k][2]]

\* one iteration of pass 2 as the claim describes it
C13_InteractStep ==
    (pc = "interactions" /\ idx <= Len(entries) /\ idx' = idx + 1) =>
        IF entries[idx].action = "entering"
        THEN /\ prev_func' = entries[idx].function
             /\ out' = IF prev_func # NoneVal /\ prev_func # entries[idx].function
                       THEN Append(out, prev_func \o " --> "
                                            \o entries[idx].function)
                       ELSE out
        ELSE out' = out /\ prev_func' = prev_func

\* after any number of iterations: prev is the function of the most recent
\* `entering` entry, none if there was no such entry, and the edges are the
\* consecutive pairs of distinct functions of the `entering` entries
C13_Edges ==
    pc \in {"interactions", "done"} =>
        LET n  == IF pc = "done" THEN Len(entries) ELSE idx - 1
            fs == EnteredFunctions(n)
        IN  /\ prev_func = (IF Len(fs) = 0 THEN NoneVal ELSE fs[Len(fs)])
            /\ SelectSeq(out, IsEdgeLine) = EdgesOf(fs)

\* C13: pass 2 of the component builder keeps in prev the function of the
\* most recent `entering` entry; an `entering` entry for f emits `prev --> f`
\* exactly when prev is set and differs from f, then sets prev to f; any
\* other entry emits nothing and leaves prev alone, so the edges are the
\* consecutive pairs of distinct functions of the `entering` entries, in
\* order.
C13_ComponentEdges == [][C13_InteractStep]_vars /\ []C13_Edges

\* entering probe, exiting probe, entering open: the entry between the two
\* does not move prev, and the one edge is probe --> open
C13_Witness ==
    /\ pc = "done"
    /\ Len(entries) = 3
    /\ entries[1].action = "entering" /\ entries[1].function = "probe"
    /\ entries[2].action = "exiting"
    /\ entries[3].action = "entering" /\ entries[3].function = "open"
    /\ SelectSeq(out, IsEdgeLine) = <<"probe --> open">>

====
